---- MODULE Spec2Model ----
(***************************************************************************)
(* State-machine model of the ProteinFoldingFHE contract                   *)
(* (src/unnamed/part_000): access control, rate limiting, the batch        *)
(* ledger and the decryption coordinator.  Every external function is one  *)
(* action; a reverted call leaves the contract storage unchanged and only  *)
(* records its outcome in the observation variable `last`.                 *)
(***************************************************************************)
EXTENDS Integers, Sequences, FiniteSets, TLC

\* ------------------------------------------------------------------ bounds
MaxTime == 2          \* block.timestamp ranges over 0..MaxTime
MaxBatchId == 2       \* currentBatchId ranges over 1..MaxBatchId
MaxEvents == 4        \* length of the recorded batch/decryption event log
MaxRequestId == 0     \* request identifiers 0..MaxRequestId
UintBits == 8         \* width of the (scaled-down) uint256
EuintBits == 4        \* width of the (scaled-down) euint32

\* --------------------------------------------------------------- constants
DefaultCooldown == 60 \* constructor: cooldownSeconds = 60
FirstBatchId == 1     \* constructor: currentBatchId = 1

Pow2(n) == IF n = 0 THEN 1 ELSE 2 ^ n
UintMax == Pow2(UintBits) - 1
EuintMod == Pow2(EuintBits)

\* ------------------------------------------------------------- identities
Deployer == "o"
Addr == {"o", "a"}
Oracle == "oracle"
NoAddr == "none"
This == "this"        \* address(this)

BatchIds == 0..(MaxBatchId + 1)
RequestIds == 0..MaxRequestId
Plain == {3, 5}                       \* plaintext scores offered by providers
CooldownInputs == {1, UintMax}        \* arguments of setCooldownSeconds
Cleartexts == {0, 8}                  \* decoded oracle answers

VARIABLES owner, isProvider, paused, cooldownSeconds,
          lastSubmissionTime, lastDecryptionRequestTime,
          currentBatchId, batches, decryptionContexts,
          nextRequestId, now, events, last

storage == <<owner, isProvider, paused, cooldownSeconds,
             lastSubmissionTime, lastDecryptionRequestTime,
             currentBatchId, batches, decryptionContexts, nextRequestId>>
vars == <<owner, isProvider, paused, cooldownSeconds,
          lastSubmissionTime, lastDecryptionRequestTime,
          currentBatchId, batches, decryptionContexts,
          nextRequestId, now, events, last>>

\* ------------------------------------------- the encrypted-value capability
\* A ciphertext handle is a number: 0 is the uninitialized handle, h > 0 is
\* the handle of an encryption of h - 1.
Enc(v) == v + 1
Dec(h) == IF h = 0 THEN 0 ELSE h - 1
Handles == {0} \cup {Enc(v) : v \in Plain}
FHE_isInitialized(h) == h # 0
FHE_asEuint32(x) == x
FHE_toBytes32(h) == h
\* Variant: the sum is replaced by the second operand.
FHE_add_KeepsLast(a, b) == b
FHE_add(a, b) == Enc((Dec(a) + Dec(b)) % EuintMod)

\* keccak256(abi.encode(cts, address(this))): an injective digest, never
\* equal to bytes32(0), which is the empty tuple here.
ZeroHash == <<>>
HashCiphertexts(cts) == <<cts, This>>

\* ------------------------------------------------------------------ events
\* Variant: events are emitted without their batch id.
Ev_DropsId(kind, who, id, val, cnt) ==
  [kind |-> kind, who |-> who, id |-> 0, val |-> val, cnt |-> cnt]

Ev(kind, who, id, val, cnt) ==
  [kind |-> kind, who |-> who, id |-> id, val |-> val, cnt |-> cnt]

\* The outcome of a call: its arguments (who: address argument, num: numeric
\* argument, proof: whether the oracle's proof verifies, for myCallback only),
\* its error ("ok" when it did not revert) and the events it emitted.
Call(op, caller, who, num, err, emitted) ==
  [op |-> op, caller |-> caller, who |-> who, num |-> num, proof |-> FALSE,
   err |-> err, emitted |-> emitted]

EmptyBatch == [id |-> 0, active |-> FALSE, totalScore |-> 0, submissionCount |-> 0]
EmptyContext == [batchId |-> 0, stateHash |-> ZeroHash, processed |-> FALSE]

\* Variant: the constructor leaves currentBatchId at its default value.
Init_StartsAtZero ==
  /\ owner = Deployer
  /\ isProvider = [x \in Addr |-> x = Deployer]
  /\ paused = FALSE
  /\ cooldownSeconds = DefaultCooldown
  /\ lastSubmissionTime = [x \in Addr |-> 0]
  /\ lastDecryptionRequestTime = [x \in Addr |-> 0]
  /\ currentBatchId = 0
  /\ batches = [i \in BatchIds |-> EmptyBatch]
  /\ decryptionContexts = [r \in RequestIds |-> EmptyContext]
  /\ nextRequestId = 0
  /\ now = 0
  /\ events = <<>>
  /\ last = Call("constructor", Deployer, NoAddr, 0, "ok", <<>>)

Init ==
  /\ owner = Deployer
  /\ isProvider = [x \in Addr |-> x = Deployer]
  /\ paused = FALSE
  /\ cooldownSeconds = DefaultCooldown
  /\ lastSubmissionTime = [x \in Addr |-> 0]
  /\ lastDecryptionRequestTime = [x \in Addr |-> 0]
  /\ currentBatchId = FirstBatchId
  /\ batches = [i \in BatchIds |-> EmptyBatch]
  /\ decryptionContexts = [r \in RequestIds |-> EmptyContext]
  /\ nextRequestId = 0
  /\ now = 0
  /\ events = <<>>
  /\ last = Call("constructor", Deployer, NoAddr, 0, "ok", <<>>)

\* A reverted call: nothing but the recorded outcome changes.
\* Variant: a rejected call still records the time of the caller's attempt.
Revert_StampsCaller(op, caller, who, num, err) ==
  /\ last' = Call(op, caller, who, num, err, <<>>)
  /\ lastSubmissionTime' =
       [x \in Addr |-> IF x = caller THEN now ELSE lastSubmissionTime[x]]
  /\ UNCHANGED <<owner, isProvider, paused, cooldownSeconds,
                 lastDecryptionRequestTime, currentBatchId, batches,
                 decryptionContexts, nextRequestId, now, events>>

Revert(op, caller, who, num, err) ==
  /\ last' = Call(op, caller, who, num, err, <<>>)
  /\ UNCHANGED <<storage, now, events>>

\* A new block: block.timestamp advances; no call is made.
Tick ==
  /\ now < MaxTime
  /\ now' = now + 1
  /\ last' = Call("tick", NoAddr, NoAddr, 0, "ok", <<>>)
  /\ UNCHANGED <<storage, events>>

\* ------------------------------------------------------------- modifiers
\* Variant: onlyOwner that also lets providers through.
OnlyOwnerErr_OrProvider(caller) ==
  IF caller # owner /\ ~isProvider[caller] THEN "NotOwner" ELSE "ok"

\* Variant: onlyOwner also refuses every call while the contract is paused.
OnlyOwnerErr_AndNotPaused(caller) ==
  IF caller # owner THEN "NotOwner" ELSE IF paused THEN "Paused" ELSE "ok"

OnlyOwnerErr(caller) == IF caller # owner THEN "NotOwner" ELSE "ok"
OnlyProviderErr(caller) == IF ~isProvider[caller] THEN "NotProvider" ELSE "ok"
WhenNotPausedErr == IF paused THEN "Paused" ELSE "ok"
\* Variant: the cooldown ends one second early.
CooldownErr_OffByOne(lastTime) ==
  IF lastTime + cooldownSeconds > UintMax THEN "Panic"
  ELSE IF now + 1 < lastTime + cooldownSeconds THEN "CooldownActive"
  ELSE "ok"

\* Variant: the guards compare against the constructor's cooldown.
CooldownErr_DefaultCooldown(lastTime) ==
  IF lastTime + DefaultCooldown > UintMax THEN "Panic"
  ELSE IF now < lastTime + DefaultCooldown THEN "CooldownActive"
  ELSE "ok"

\* Variant: a caller that never acted (last-action time 0) is not rate limited.
CooldownErr_FirstUseFree(lastTime) ==
  IF lastTime = 0 THEN "ok"
  ELSE IF lastTime + cooldownSeconds > UintMax THEN "Panic"
  ELSE IF now < lastTime + cooldownSeconds THEN "CooldownActive"
  ELSE "ok"

\* Variant: the sum is computed in unchecked arithmetic and wraps around.
CooldownErr_Wraps(lastTime) ==
  IF now < (lastTime + cooldownSeconds) % (UintMax + 1) THEN "CooldownActive"
  ELSE "ok"

\* block.timestamp < lastTime + cooldownSeconds, in checked uint256 arithmetic
CooldownErr(lastTime) ==
  IF lastTime + cooldownSeconds > UintMax THEN "Panic"
  ELSE IF now < lastTime + cooldownSeconds THEN "CooldownActive"
  ELSE "ok"
CheckSubmissionCooldownErr(caller) == CooldownErr(lastSubmissionTime[caller])
\* Variant: the decryption guard reads the submission tracker.
CheckDecryptionCooldownErr_SharedTracker(caller) ==
  CooldownErr(lastSubmissionTime[caller])
CheckDecryptionCooldownErr(caller) == CooldownErr(lastDecryptionRequestTime[caller])

\* ------------------------------------------------------------ governance
\* Variant: the new owner is also entered in the provider set.
transferOwnership_GrantsProvider(caller, newOwner) ==
  LET err == OnlyOwnerErr(caller) IN
  IF err # "ok" THEN Revert("transferOwnership", caller, newOwner, 0, err)
  ELSE /\ owner' = newOwner
       /\ isProvider' = [isProvider EXCEPT ![newOwner] = TRUE]
       /\ last' = Call("transferOwnership", caller, newOwner, 0, "ok",
                       <<Ev("OwnershipTransferred", newOwner, 0, 0, 0)>>)
       /\ UNCHANGED <<paused, cooldownSeconds, lastSubmissionTime,
                      lastDecryptionRequestTime, currentBatchId, batches,
                      decryptionContexts, nextRequestId, now, events>>

transferOwnership(caller, newOwner) ==
  LET err == OnlyOwnerErr(caller) IN
  IF err # "ok" THEN Revert("transferOwnership", caller, newOwner, 0, err)
  ELSE /\ owner' = newOwner
       /\ last' = Call("transferOwnership", caller, newOwner, 0, "ok",
                       <<Ev("OwnershipTransferred", newOwner, 0, 0, 0)>>)
       /\ UNCHANGED <<isProvider, paused, cooldownSeconds, lastSubmissionTime,
                      lastDecryptionRequestTime, currentBatchId, batches,
                      decryptionContexts, nextRequestId, now, events>>

\* Variant: ProviderAdded is emitted on every successful call.
addProvider_AlwaysEmits(caller, provider) ==
  LET err == OnlyOwnerErr(caller) IN
  IF err # "ok" THEN Revert("addProvider", caller, provider, 0, err)
  ELSE /\ isProvider' = [isProvider EXCEPT ![provider] = TRUE]
       /\ last' = Call("addProvider", caller, provider, 0, "ok",
                       <<Ev("ProviderAdded", provider, 0, 0, 0)>>)
       /\ UNCHANGED <<owner, paused, cooldownSeconds, lastSubmissionTime,
                      lastDecryptionRequestTime, currentBatchId, batches,
                      decryptionContexts, nextRequestId, now, events>>

addProvider(caller, provider) ==
  LET err == OnlyOwnerErr(caller) IN
  IF err # "ok" THEN Revert("addProvider", caller, provider, 0, err)
  ELSE /\ isProvider' = [isProvider EXCEPT ![provider] = TRUE]
       /\ last' = Call("addProvider", caller, provider, 0, "ok",
                       IF ~isProvider[provider]
                       THEN <<Ev("ProviderAdded", provider, 0, 0, 0)>> ELSE <<>>)
       /\ UNCHANGED <<owner, paused, cooldownSeconds, lastSubmissionTime,
                      lastDecryptionRequestTime, currentBatchId, batches,
                      decryptionContexts, nextRequestId, now, events>>

removeProvider(caller, provider) ==
  LET err == OnlyOwnerErr(caller) IN
  IF err # "ok" THEN Revert("removeProvider", caller, provider, 0, err)
  ELSE /\ isProvider' = [isProvider EXCEPT ![provider] = FALSE]
       /\ last' = Call("removeProvider", caller, provider, 0, "ok",
                       IF isProvider[provider]
                       THEN <<Ev("ProviderRemoved", provider, 0, 0, 0)>> ELSE <<>>)
       /\ UNCHANGED <<owner, paused, cooldownSeconds, lastSubmissionTime,
                      lastDecryptionRequestTime, currentBatchId, batches,
                      decryptionContexts, nextRequestId, now, events>>

setPaused(caller, p) ==
  LET err == OnlyOwnerErr(caller) IN
  IF err # "ok" THEN Revert("setPaused", caller, NoAddr, IF p THEN 1 ELSE 0, err)
  ELSE /\ paused' = p
       /\ last' = Call("setPaused", caller, NoAddr, IF p THEN 1 ELSE 0, "ok",
                       <<Ev("PauseToggled", NoAddr, 0, IF p THEN 1 ELSE 0, 0)>>)
       /\ UNCHANGED <<owner, isProvider, cooldownSeconds, lastSubmissionTime,
                      lastDecryptionRequestTime, currentBatchId, batches,
                      decryptionContexts, nextRequestId, now, events>>

setCooldownSeconds(caller, c) ==
  LET err == OnlyOwnerErr(caller) IN
  IF err # "ok" THEN Revert("setCooldownSeconds", caller, NoAddr, c, err)
  ELSE /\ cooldownSeconds' = c
       /\ last' = Call("setCooldownSeconds", caller, NoAddr, c, "ok",
                       <<Ev("CooldownSet", NoAddr, 0, cooldownSeconds, c)>>)
       /\ UNCHANGED <<owner, isProvider, paused, lastSubmissionTime,
                      lastDecryptionRequestTime, currentBatchId, batches,
                      decryptionContexts, nextRequestId, now, events>>

\* ---------------------------------------------------------- batch ledger
\* Variant: openBatch without the check that the current slot is inactive.
openBatchErr_NoActiveCheck(caller) ==
  IF OnlyOwnerErr(caller) # "ok" THEN OnlyOwnerErr(caller)
  ELSE WhenNotPausedErr

openBatchErr(caller) ==
  IF OnlyOwnerErr(caller) # "ok" THEN OnlyOwnerErr(caller)
  ELSE IF WhenNotPausedErr # "ok" THEN WhenNotPausedErr
  ELSE IF batches[currentBatchId].active THEN "BatchAlreadyActive"
  ELSE "ok"

openBatch(caller) ==
  LET err == openBatchErr(caller)
      e == Ev("BatchOpened", NoAddr, currentBatchId, 0, 0) IN
  IF err # "ok" THEN Revert("openBatch", caller, NoAddr, 0, err)
  ELSE /\ Len(events) < MaxEvents
       /\ batches' = [batches EXCEPT ![currentBatchId] =
                        [id |-> currentBatchId, active |-> TRUE,
                         totalScore |-> 0, submissionCount |-> 0]]
       /\ events' = Append(events, e)
       /\ last' = Call("openBatch", caller, NoAddr, 0, "ok", <<e>>)
       /\ UNCHANGED <<owner, isProvider, paused, cooldownSeconds,
                      lastSubmissionTime, lastDecryptionRequestTime,
                      currentBatchId, decryptionContexts, nextRequestId, now>>

\* Variant: closeBatch without the batchId check.
closeBatchErr_NoIdCheck(caller, batchId) ==
  IF OnlyOwnerErr(caller) # "ok" THEN OnlyOwnerErr(caller)
  ELSE IF WhenNotPausedErr # "ok" THEN WhenNotPausedErr
  ELSE IF ~batches[batchId].active THEN "BatchNotActive"
  ELSE "ok"

closeBatchErr(caller, batchId) ==
  IF OnlyOwnerErr(caller) # "ok" THEN OnlyOwnerErr(caller)
  ELSE IF WhenNotPausedErr # "ok" THEN WhenNotPausedErr
  ELSE IF batchId # currentBatchId THEN "InvalidBatchId"
  ELSE IF ~batches[batchId].active THEN "BatchNotActive"
  ELSE "ok"

\* Variant: closeBatch that forgets batch.active = false.
closeBatch_LeavesActive(caller, batchId) ==
  LET err == closeBatchErr(caller, batchId)
      e == Ev("BatchClosed", NoAddr, batchId, batches[batchId].totalScore,
              batches[batchId].submissionCount) IN
  IF err # "ok" THEN Revert("closeBatch", caller, NoAddr, batchId, err)
  ELSE /\ Len(events) < MaxEvents
       /\ currentBatchId < MaxBatchId
       /\ currentBatchId' = currentBatchId + 1
       /\ events' = Append(events, e)
       /\ last' = Call("closeBatch", caller, NoAddr, batchId, "ok", <<e>>)
       /\ UNCHANGED <<owner, isProvider, paused, cooldownSeconds,
                      lastSubmissionTime, lastDecryptionRequestTime, batches,
                      decryptionContexts, nextRequestId, now>>

\* Variant: closeBatch that forgets currentBatchId++.
closeBatch_NoAdvance(caller, batchId) ==
  LET err == closeBatchErr(caller, batchId)
      e == Ev("BatchClosed", NoAddr, batchId, batches[batchId].totalScore,
              batches[batchId].submissionCount) IN
  IF err # "ok" THEN Revert("closeBatch", caller, NoAddr, batchId, err)
  ELSE /\ Len(events) < MaxEvents
       /\ currentBatchId < MaxBatchId
       /\ batches' = [batches EXCEPT ![batchId].active = FALSE]
       /\ events' = Append(events, e)
       /\ last' = Call("closeBatch", caller, NoAddr, batchId, "ok", <<e>>)
       /\ UNCHANGED <<owner, isProvider, paused, cooldownSeconds,
                      lastSubmissionTime, lastDecryptionRequestTime,
                      currentBatchId, decryptionContexts, nextRequestId, now>>

closeBatch(caller, batchId) ==
  LET err == closeBatchErr(caller, batchId)
      e == Ev("BatchClosed", NoAddr, batchId, batches[batchId].totalScore,
              batches[batchId].submissionCount) IN
  IF err # "ok" THEN Revert("closeBatch", caller, NoAddr, batchId, err)
  ELSE /\ Len(events) < MaxEvents
       /\ currentBatchId < MaxBatchId
       /\ batches' = [batches EXCEPT ![batchId].active = FALSE]
       /\ currentBatchId' = currentBatchId + 1
       /\ events' = Append(events, e)
       /\ last' = Call("closeBatch", caller, NoAddr, batchId, "ok", <<e>>)
       /\ UNCHANGED <<owner, isProvider, paused, cooldownSeconds,
                      lastSubmissionTime, lastDecryptionRequestTime,
                      decryptionContexts, nextRequestId, now>>

\* Variant: submitFoldingData without the batch.active check.
submitFoldingDataErr_NoActiveCheck(caller, encryptedScore) ==
  IF OnlyProviderErr(caller) # "ok" THEN OnlyProviderErr(caller)
  ELSE IF WhenNotPausedErr # "ok" THEN WhenNotPausedErr
  ELSE IF CheckSubmissionCooldownErr(caller) # "ok"
       THEN CheckSubmissionCooldownErr(caller)
  ELSE IF ~FHE_isInitialized(encryptedScore) THEN "NotInitialized"
  ELSE "ok"

\* Variant: the modifiers run in the order onlyProvider, checkSubmissionCooldown,
\* whenNotPaused, and the pause check is reached after the body's checks.
submitFoldingDataErr_PauseLast(caller, encryptedScore) ==
  IF OnlyProviderErr(caller) # "ok" THEN OnlyProviderErr(caller)
  ELSE IF CheckSubmissionCooldownErr(caller) # "ok"
       THEN CheckSubmissionCooldownErr(caller)
  ELSE IF ~FHE_isInitialized(encryptedScore) THEN "NotInitialized"
  ELSE IF ~batches[currentBatchId].active THEN "BatchNotActive"
  ELSE WhenNotPausedErr

submitFoldingDataErr(caller, encryptedScore) ==
  IF OnlyProviderErr(caller) # "ok" THEN OnlyProviderErr(caller)
  ELSE IF WhenNotPausedErr # "ok" THEN WhenNotPausedErr
  ELSE IF CheckSubmissionCooldownErr(caller) # "ok"
       THEN CheckSubmissionCooldownErr(caller)
  ELSE IF ~FHE_isInitialized(encryptedScore) THEN "NotInitialized"
  ELSE IF ~batches[currentBatchId].active THEN "BatchNotActive"
  ELSE "ok"

submitFoldingData(caller, encryptedScore) ==
  LET err == submitFoldingDataErr(caller, encryptedScore)
      batch == batches[currentBatchId]
      e == Ev("FoldingDataSubmitted", caller, currentBatchId, encryptedScore, 0) IN
  IF err # "ok" THEN Revert("submitFoldingData", caller, NoAddr, encryptedScore, err)
  ELSE /\ Len(events) < MaxEvents
       /\ batches' = [batches EXCEPT ![currentBatchId] =
                        [batch EXCEPT
                           !.totalScore = FHE_toBytes32(
                              FHE_add(FHE_asEuint32(batch.totalScore), encryptedScore)),
                           !.submissionCount = batch.submissionCount + 1]]
       /\ lastSubmissionTime' = [lastSubmissionTime EXCEPT ![caller] = now]
       /\ events' = Append(events, e)
       /\ last' = Call("submitFoldingData", caller, NoAddr, encryptedScore, "ok", <<e>>)
       /\ UNCHANGED <<owner, isProvider, paused, cooldownSeconds,
                      lastDecryptionRequestTime, currentBatchId,
                      decryptionContexts, nextRequestId, now>>

\* -------------------------------------------------- decryption coordinator
\* Variant: the request does not check that the current batch is closed.
requestBatchScoreDecryptionErr_NoActiveCheck(caller) ==
  IF OnlyOwnerErr(caller) # "ok" THEN OnlyOwnerErr(caller)
  ELSE IF WhenNotPausedErr # "ok" THEN WhenNotPausedErr
  ELSE IF CheckDecryptionCooldownErr(caller) # "ok"
       THEN CheckDecryptionCooldownErr(caller)
  ELSE IF batches[currentBatchId].submissionCount = 0 THEN "Revert"
  ELSE "ok"

requestBatchScoreDecryptionErr(caller) ==
  IF OnlyOwnerErr(caller) # "ok" THEN OnlyOwnerErr(caller)
  ELSE IF WhenNotPausedErr # "ok" THEN WhenNotPausedErr
  ELSE IF CheckDecryptionCooldownErr(caller) # "ok"
       THEN CheckDecryptionCooldownErr(caller)
  ELSE IF batches[currentBatchId].active THEN "BatchNotActive"
  ELSE IF batches[currentBatchId].submissionCount = 0 THEN "Revert"
  ELSE "ok"

requestBatchScoreDecryption(caller) ==
  LET err == requestBatchScoreDecryptionErr(caller)
      batch == batches[currentBatchId]
      cts == <<FHE_toBytes32(FHE_asEuint32(batch.totalScore))>>
      stateHash == HashCiphertexts(cts)
      requestId == nextRequestId
      e == Ev("DecryptionRequested", NoAddr, batch.id, requestId, 0) IN
  IF err # "ok" THEN Revert("requestBatchScoreDecryption", caller, NoAddr, 0, err)
  ELSE /\ Len(events) < MaxEvents
       /\ nextRequestId <= MaxRequestId
       /\ nextRequestId' = nextRequestId + 1
       /\ decryptionContexts' = [decryptionContexts EXCEPT ![requestId] =
                                   [batchId |-> batch.id, stateHash |-> stateHash,
                                    processed |-> FALSE]]
       /\ lastDecryptionRequestTime' =
            [lastDecryptionRequestTime EXCEPT ![caller] = now]
       /\ events' = Append(events, e)
       /\ last' = Call("requestBatchScoreDecryption", caller, NoAddr, requestId,
                       "ok", <<e>>)
       /\ UNCHANGED <<owner, isProvider, paused, cooldownSeconds,
                      lastSubmissionTime, currentBatchId, batches, now>>

\* Variant: the stored state hash is not compared with the recomputed one.
myCallbackErr_NoStateCheck(requestId, proofValid) ==
  IF decryptionContexts[requestId].processed THEN "ReplayAttempt"
  ELSE IF ~proofValid THEN "InvalidProof"
  ELSE "ok"

myCallbackErr(requestId, proofValid) ==
  LET ctx == decryptionContexts[requestId]
      batch == batches[ctx.batchId]
      cts == <<FHE_toBytes32(FHE_asEuint32(batch.totalScore))>> IN
  IF ctx.processed THEN "ReplayAttempt"
  ELSE IF HashCiphertexts(cts) # ctx.stateHash THEN "StateMismatch"
  ELSE IF ~proofValid THEN "InvalidProof"
  ELSE "ok"

myCallback(caller, requestId, cleartexts, proofValid) ==
  LET err == myCallbackErr(requestId, proofValid)
      ctx == decryptionContexts[requestId]
      e == Ev("DecryptionCompleted", NoAddr, ctx.batchId, requestId, cleartexts) IN
  IF err # "ok"
  THEN /\ last' = [Call("myCallback", caller, NoAddr, requestId, err, <<>>)
                     EXCEPT !.proof = proofValid]
       /\ UNCHANGED <<storage, now, events>>
  ELSE /\ Len(events) < MaxEvents
       /\ decryptionContexts' = [decryptionContexts EXCEPT ![requestId].processed = TRUE]
       /\ events' = Append(events, e)
       /\ last' = [Call("myCallback", caller, NoAddr, requestId, "ok", <<e>>)
                     EXCEPT !.proof = proofValid]
       /\ UNCHANGED <<owner, isProvider, paused, cooldownSeconds,
                      lastSubmissionTime, lastDecryptionRequestTime,
                      currentBatchId, batches, nextRequestId, now>>

\* ------------------------------------------------------- specification
Next ==
  \/ Tick
  \/ \E c \in Addr, n \in Addr : transferOwnership(c, n)
  \/ \E c \in Addr, p \in Addr : addProvider(c, p)
  \/ \E c \in Addr, p \in Addr : removeProvider(c, p)
  \/ \E c \in Addr, p \in BOOLEAN : setPaused(c, p)
  \/ \E c \in Addr, v \in CooldownInputs : setCooldownSeconds(c, v)
  \/ \E c \in Addr : openBatch(c)
  \/ \E c \in Addr, b \in BatchIds : closeBatch(c, b)
  \/ \E c \in Addr, h \in Handles : submitFoldingData(c, h)
  \/ \E c \in Addr : requestBatchScoreDecryption(c)
  \/ \E c \in Addr \cup {Oracle}, r \in RequestIds, v \in Cleartexts, pv \in BOOLEAN :
       myCallback(c, r, v, pv)

Spec == Init /\ [][Next]_vars

TypeOK ==
  /\ owner \in Addr
  /\ isProvider \in [Addr -> BOOLEAN]
  /\ paused \in BOOLEAN
  /\ cooldownSeconds \in 0..UintMax
  /\ lastSubmissionTime \in [Addr -> 0..MaxTime]
  /\ lastDecryptionRequestTime \in [Addr -> 0..MaxTime]
  /\ currentBatchId \in 1..MaxBatchId
  /\ now \in 0..MaxTime
  /\ Len(events) <= MaxEvents

\* ================================================================ claims
Closed(i) ==
  \E k \in 1..Len(events) : events[k].kind = "BatchClosed" /\ events[k].id = i
HasSubmitted(c) ==
  \E k \in 1..Len(events) :
     events[k].kind = "FoldingDataSubmitted" /\ events[k].who = c
OwnerOnlyOps == {"transferOwnership", "addProvider", "removeProvider", "setPaused",
                 "setCooldownSeconds", "openBatch", "closeBatch",
                 "requestBatchScoreDecryption"}

\* C1: in every reachable state at most one batch slot has active = true.
C1_AtMostOneActive == Cardinality({i \in BatchIds : batches[i].active}) <= 1
\* C1 case: batch 1 was closed and batch 2 is now the active one.
C1_Witness == Closed(1) /\ batches[2].active /\ ~batches[1].active

\* C2: after open(1), submit(5) by A, submit(3) by B, close(1), the owner's
\* requestBatchScoreDecryption (not paused, cooldown elapsed) succeeds and
\* stores a context for batch 1; and a successful callback for it leaves
\* exactly one DecryptionCompleted(batchId = 1, value = 8) in the log.
ScenarioLog(A, B) ==
  << Ev("BatchOpened", NoAddr, 1, 0, 0),
     Ev("FoldingDataSubmitted", A, 1, Enc(5), 0),
     Ev("FoldingDataSubmitted", B, 1, Enc(3), 0),
     Ev("BatchClosed", NoAddr, 1, Enc(8), 2) >>
IsCompleted18(e) == e.kind = "DecryptionCompleted" /\ e.id = 1 /\ e.cnt = 8
C2_Step ==
  /\ ( /\ \E A, B \in Addr : A # B /\ events = ScenarioLog(A, B)
       /\ last'.op = "requestBatchScoreDecryption"
       /\ last'.caller = owner
       /\ ~paused
       /\ now >= lastDecryptionRequestTime[owner] + cooldownSeconds )
     => /\ last'.err = "ok"
        /\ \E r \in RequestIds :
             /\ decryptionContexts'[r].batchId = 1
             /\ decryptionContexts'[r].stateHash = HashCiphertexts(<<Enc(8)>>)
             /\ ~decryptionContexts'[r].processed
  /\ ( /\ last'.op = "myCallback" /\ last'.err = "ok"
       /\ last'.emitted = <<Ev("DecryptionCompleted", NoAddr, 1, last'.num, 8)>> )
     => Cardinality({k \in 1..Len(events') : IsCompleted18(events'[k])}) = 1
\* C2: every step of the end-to-end scenario behaves as C2_Step requires (the
\* request after close(1) succeeds; the completion for batch 1 is logged once).
C2_EndToEnd == [][C2_Step]_vars

\* C3: once closeBatch(id) has succeeded, slot id stays inactive and its
\* totalScore and submissionCount are never written again.
C3_FreezeAfterClose ==
  [][\A i \in BatchIds :
       Closed(i) => /\ ~batches[i].active
                    /\ ~batches'[i].active
                    /\ batches'[i].totalScore = batches[i].totalScore
                    /\ batches'[i].submissionCount = batches[i].submissionCount]_vars
\* C3 case: batch 1 was closed and a later submission has been recorded.
C3_Witness ==
  /\ Closed(1)
  /\ last.op = "submitFoldingData" /\ last.err = "ok"
  /\ batches[2].submissionCount = 1

\* C4 (as stated): every owner call of closeBatch with batchId # currentBatchId
\* is rejected with InvalidBatchId and changes no batch slot; with
\* batchId = currentBatchId and the slot inactive it is rejected with
\* BatchNotActive.
C4_Original ==
  [][last'.op = "closeBatch" =>
       /\ last'.err = "ok" => last'.num = currentBatchId
       /\ (last'.caller = owner /\ last'.num # currentBatchId)
            => (last'.err = "InvalidBatchId" /\ batches' = batches)
       /\ (last'.caller = owner /\ last'.num = currentBatchId
             /\ ~batches[currentBatchId].active)
            => last'.err = "BatchNotActive"]_vars
\* C4 (amended): closeBatch never succeeds on an id other than currentBatchId;
\* an owner call with batchId # currentBatchId is rejected with InvalidBatchId
\* while not paused and with Paused while paused, and changes no batch slot;
\* with batchId = currentBatchId and the slot inactive it is rejected with
\* BatchNotActive while not paused and with Paused while paused.
C4_CloseOnlyCurrent ==
  [][last'.op = "closeBatch" =>
       /\ last'.err = "ok" => last'.num = currentBatchId
       /\ (last'.caller = owner /\ last'.num # currentBatchId)
            => /\ last'.err = (IF paused THEN "Paused" ELSE "InvalidBatchId")
               /\ batches' = batches
       /\ (last'.caller = owner /\ last'.num = currentBatchId
             /\ ~batches[currentBatchId].active)
            => last'.err = (IF paused THEN "Paused" ELSE "BatchNotActive")]_vars
\* C4 case: the owner tried to close an id above the current, active batch.
C4_Witness ==
  /\ last.op = "closeBatch" /\ last.caller = owner
  /\ last.err = "InvalidBatchId" /\ last.num > currentBatchId
  /\ batches[currentBatchId].active

\* C5: a successful closeBatch raises currentBatchId by exactly one and leaves
\* the new current slot inactive; the current slot only becomes active by a
\* successful openBatch.
C5_AfterClose ==
  [][ /\ (last'.op = "closeBatch" /\ last'.err = "ok")
         => /\ currentBatchId' = currentBatchId + 1
            /\ ~batches'[currentBatchId'].active
      /\ (~batches[currentBatchId].active /\ batches'[currentBatchId'].active)
         => (last'.op = "openBatch" /\ last'.err = "ok") ]_vars
\* C5 case: batch 1 was closed, other calls followed, and slot 2 is still inactive.
C5_Witness ==
  /\ Closed(1) /\ currentBatchId = 2 /\ ~batches[2].active
  /\ last.op = "submitFoldingData" /\ last.err = "BatchNotActive"

\* C6: submitFoldingData fails whenever the current batch is inactive (with
\* BatchNotActive once the earlier guards pass) and whenever the caller is not
\* a provider (with NotProvider); a failed call changes no submissionCount and
\* no totalScore.
C6_SubmitFails ==
  [][last'.op = "submitFoldingData" =>
       LET c == last'.caller IN
       /\ ~isProvider[c] => last'.err = "NotProvider"
       /\ ~batches[currentBatchId].active => last'.err # "ok"
       /\ ( /\ ~batches[currentBatchId].active
            /\ isProvider[c] /\ ~paused
            /\ lastSubmissionTime[c] + cooldownSeconds <= now
            /\ last'.num # 0 )
          => last'.err = "BatchNotActive"
       /\ last'.err # "ok" =>
            \A i \in BatchIds :
               /\ batches'[i].submissionCount = batches[i].submissionCount
               /\ batches'[i].totalScore = batches[i].totalScore]_vars
\* C6 case: a provider's submission was rejected because the current batch is
\* closed, while an earlier batch holds a recorded submission.
C6_Witness ==
  /\ last.op = "submitFoldingData" /\ last.err = "BatchNotActive"
  /\ ~batches[currentBatchId].active
  /\ batches[1].submissionCount > 0

\* The preconditions of submitFoldingData other than the cooldown.
OtherSubmitPreconditions(c, h) ==
  /\ isProvider[c] /\ ~paused
  /\ h # 0
  /\ batches[currentBatchId].active

\* C9 (as stated): with a previous successful submission at t and all other
\* preconditions met, a submission at t2 is rejected with CooldownActive when
\* t2 < t + cooldownSeconds and succeeds when t2 >= t + cooldownSeconds.
C9_Original ==
  [][ ( /\ last'.op = "submitFoldingData"
        /\ HasSubmitted(last'.caller)
        /\ OtherSubmitPreconditions(last'.caller, last'.num) )
      => LET t == lastSubmissionTime[last'.caller] IN
         /\ now < t + cooldownSeconds => last'.err = "CooldownActive"
         /\ now >= t + cooldownSeconds => last'.err = "ok" ]_vars
\* C9 (amended): as stated when t + cooldownSeconds fits the unsigned range;
\* when t + cooldownSeconds exceeds it, the submission is rejected with an
\* arithmetic overflow panic instead of CooldownActive.
C9_CooldownBoundary ==
  [][ ( /\ last'.op = "submitFoldingData"
        /\ HasSubmitted(last'.caller)
        /\ OtherSubmitPreconditions(last'.caller, last'.num) )
      => LET t == lastSubmissionTime[last'.caller] IN
         /\ (now < t + cooldownSeconds /\ t + cooldownSeconds <= UintMax)
              => last'.err = "CooldownActive"
         /\ t + cooldownSeconds > UintMax => last'.err = "Panic"
         /\ now >= t + cooldownSeconds => last'.err = "ok" ]_vars
\* C9 case: the same provider submitted twice, the second time exactly
\* cooldownSeconds after the first.
C9_Witness ==
  /\ last.op = "submitFoldingData" /\ last.err = "ok"
  /\ \E j, k \in 1..Len(events) :
       /\ j < k
       /\ events[j].kind = "FoldingDataSubmitted" /\ events[j].who = last.caller
       /\ events[k].kind = "FoldingDataSubmitted" /\ events[k].who = last.caller
  /\ cooldownSeconds = 1 /\ now = 2

\* C10: an owner-only operation called by anyone but the current owner is
\* rejected with NotOwner, emits no event and changes no state.
C10_NotOwnerRejected ==
  [][ (last'.op \in OwnerOnlyOps /\ last'.caller # owner)
      => /\ last'.err = "NotOwner"
         /\ last'.emitted = <<>>
         /\ UNCHANGED <<storage, now, events>> ]_vars
\* C10 case: a non-owner who is a provider called openBatch while paused.
C10_Witness ==
  /\ last.op = "openBatch" /\ last.err = "NotOwner"
  /\ last.caller # owner /\ isProvider[last.caller] /\ paused

\* ---------------------------------------------------------------------------
\* The operations that are not governance: the batch life cycle, submissions,
\* decryption requests and the callback.
NonGovernanceOps ==
  {"openBatch", "closeBatch", "submitFoldingData",
   "requestBatchScoreDecryption", "myCallback"}

\* C11: while the contract is paused, a submitFoldingData call by a provider
\* is rejected with Paused whatever the batch state, the caller's cooldown
\* state and the ciphertext's initialization are, and changes nothing.
C11_PausedSubmit ==
  [][ (last'.op = "submitFoldingData" /\ paused /\ isProvider[last'.caller])
      => /\ last'.err = "Paused"
         /\ UNCHANGED <<storage, events>> ]_vars

\* A paused submission by a provider for which every later check would fail
\* too: uninitialized ciphertext, inactive batch, cooldown not elapsed.
C11_Witness ==
  /\ last.op = "submitFoldingData" /\ last.err = "Paused"
  /\ paused /\ isProvider[last.caller] /\ HasSubmitted(last.caller)
  /\ ~FHE_isInitialized(last.num)
  /\ ~batches[currentBatchId].active
  /\ now < lastSubmissionTime[last.caller] + cooldownSeconds

\* C14: every rejected operation, whatever its error, leaves the whole
\* contract state and the event log unchanged and emits nothing; in
\* particular a rejected attempt does not restart the caller's cooldown.
C14_FailAtomic ==
  [][ last'.err # "ok"
      => /\ last'.emitted = <<>>
         /\ UNCHANGED <<storage, events>> ]_vars

\* A provider whose earlier submission was accepted is rejected at a later
\* time: a restarted cooldown would show in lastSubmissionTime.
C14_Witness ==
  /\ last.op = "submitFoldingData" /\ last.err = "BatchNotActive"
  /\ HasSubmitted(last.caller)
  /\ lastSubmissionTime[last.caller] < now

\* No DecryptionContext was ever stored under request identifier r.
NeverRequested(r) ==
  \A k \in 1..Len(events) :
     events[k].kind = "DecryptionRequested" => events[k].val # r

\* C17: a callback for a request identifier under which no DecryptionContext
\* was ever stored is rejected, with a valid proof as with an invalid one: it
\* marks nothing processed and emits no DecryptionCompleted.
C17_UnknownRequest ==
  [][ (last'.op = "myCallback" /\ NeverRequested(last'.num))
      => /\ last'.err # "ok"
         /\ last'.emitted = <<>>
         /\ UNCHANGED <<decryptionContexts, events>> ]_vars

\* The oracle delivers a valid proof for an identifier nobody requested, after
\* a batch with a submission has been closed.
C17_Witness ==
  /\ last.op = "myCallback" /\ last.caller = Oracle /\ last.proof
  /\ NeverRequested(last.num)
  /\ last.err = "StateMismatch"
  /\ \E i \in BatchIds : Closed(i) /\ batches[i].submissionCount > 0

\* The errors that reject a caller for who it is.
AuthorizationErrors == {"NotOwner", "NotProvider", "NotOracle"}

\* C18: only the designated oracle can complete a decryption: a callback by
\* any other caller is rejected with an authorization error and neither sets
\* processed nor emits DecryptionCompleted, and a callback whose proof check
\* fails is rejected before any state mutation.
C18_OracleOnly ==
  [][ /\ (last'.op = "myCallback" /\ last'.caller # Oracle)
         => /\ last'.err \in AuthorizationErrors
            /\ UNCHANGED <<decryptionContexts, events>>
      /\ (last'.op = "myCallback" /\ ~last'.proof)
         => /\ last'.err # "ok"
            /\ UNCHANGED <<storage, events>> ]_vars

ProviderOps == {"addProvider", "removeProvider"}

\* C19: addProvider and removeProvider are idempotent: adding an address that
\* is already a provider, or removing one that is not, leaves the provider
\* set unchanged and emits nothing; ProviderAdded / ProviderRemoved is
\* emitted exactly when the membership of the named address changes, and no
\* other address's membership is touched.
C19_ProviderIdempotent ==
  [][ last'.op \in ProviderOps
      => LET p == last'.who
             add == last'.op = "addProvider"
             kind == IF add THEN "ProviderAdded" ELSE "ProviderRemoved" IN
         /\ (last'.emitted # <<>>) <=> (isProvider'[p] # isProvider[p])
         /\ last'.emitted \in {<<>>, <<Ev(kind, p, 0, 0, 0)>>}
         /\ \A x \in Addr \ {p} : isProvider'[x] = isProvider[x]
         /\ last'.err = "ok" => isProvider'[p] = add
         /\ isProvider[p] = add
            => (isProvider' = isProvider /\ last'.emitted = <<>>) ]_vars

\* The owner adds a non-deployer address that is already a provider.
C19_Witness ==
  /\ last.op = "addProvider" /\ last.err = "ok"
  /\ last.who # Deployer /\ isProvider[last.who]
  /\ last.emitted = <<>>

\* C20: currentBatchId is 1 after construction, is at least 1 in every
\* reachable state, never decreases, and changes only in a successful
\* closeBatch.
C20_CurrentBatchId ==
  /\ currentBatchId = 1
  /\ [](currentBatchId >= 1)
  /\ [][ /\ currentBatchId' >= currentBatchId
         /\ currentBatchId' # currentBatchId
            => (last'.op = "closeBatch" /\ last'.err = "ok") ]_vars

\* A successful closeBatch has advanced currentBatchId past 1.
C20_Witness ==
  /\ last.op = "closeBatch" /\ last.err = "ok"
  /\ currentBatchId = last.num + 1 /\ currentBatchId > 1

\* C21: openBatch by the owner while not paused fails with BatchAlreadyActive
\* and changes nothing if the slot at currentBatchId is active; otherwise it
\* sets that slot to (id = currentBatchId, active, totalScore 0,
\* submissionCount 0), emits BatchOpened(currentBatchId) and changes no other
\* batch slot and no other state.
C21_OpenBatch ==
  [][ (last'.op = "openBatch" /\ last'.caller = owner /\ ~paused)
      => IF batches[currentBatchId].active
         THEN /\ last'.err = "BatchAlreadyActive"
              /\ last'.emitted = <<>>
              /\ UNCHANGED <<storage, events>>
         ELSE /\ last'.err = "ok"
              /\ batches'[currentBatchId] =
                   [id |-> currentBatchId, active |-> TRUE,
                    totalScore |-> 0, submissionCount |-> 0]
              /\ \A i \in BatchIds \ {currentBatchId} : batches'[i] = batches[i]
              /\ Len(last'.emitted) = 1
              /\ last'.emitted[1].kind = "BatchOpened"
              /\ last'.emitted[1].id = currentBatchId
              /\ events' = events \o last'.emitted
              /\ UNCHANGED <<owner, isProvider, paused, cooldownSeconds,
                             lastSubmissionTime, lastDecryptionRequestTime,
                             currentBatchId, decryptionContexts, nextRequestId>> ]_vars

\* The owner tries to open the current batch again after it has received a
\* submission: the accumulated values survive.
C21_Witness ==
  /\ last.op = "openBatch" /\ last.caller = owner /\ ~paused
  /\ last.err = "BatchAlreadyActive"
  /\ batches[currentBatchId].submissionCount > 0

\* The accepted submissions to batch i, as positions in the event log.
SubmissionsTo(i) ==
  {k \in 1..Len(events) :
     events[k].kind = "FoldingDataSubmitted" /\ events[k].id = i}

\* The sum of the scores submitted to batch i in the first k log entries.
RECURSIVE SumSubmitted(_, _)
SumSubmitted(k, i) ==
  IF k = 0 THEN 0
  ELSE SumSubmitted(k - 1, i)
       + (IF k \in SubmissionsTo(i) THEN Dec(events[k].val) ELSE 0)

\* C22 (state part): while the batch at currentBatchId is active, its
\* submissionCount is the number of accepted submissions since it was opened
\* and its totalScore encrypts the sum of exactly those scores (in the
\* arithmetic of the encrypted integer type), starting from zero.
C22_Accumulated ==
  batches[currentBatchId].active
  => /\ batches[currentBatchId].submissionCount
          = Cardinality(SubmissionsTo(currentBatchId))
     /\ Dec(batches[currentBatchId].totalScore)
          = SumSubmitted(Len(events), currentBatchId) % EuintMod

\* C22 (step part): each accepted submission increments submissionCount by
\* one, sets lastSubmissionTime[caller] to the current time and touches no
\* batch other than the current one; BatchClosed carries the final
\* totalScore and submissionCount of the batch it closes.
C22_Step ==
  /\ (last'.op = "submitFoldingData" /\ last'.err = "ok")
     => /\ batches'[currentBatchId].submissionCount
             = batches[currentBatchId].submissionCount + 1
        /\ lastSubmissionTime'[last'.caller] = now
        /\ \A i \in BatchIds \ {currentBatchId} : batches'[i] = batches[i]
  /\ (last'.op = "closeBatch" /\ last'.err = "ok")
     => /\ Len(last'.emitted) = 1
        /\ last'.emitted[1].kind = "BatchClosed"
        /\ last'.emitted[1].id = currentBatchId
        /\ last'.emitted[1].val = batches[currentBatchId].totalScore
        /\ last'.emitted[1].cnt = batches[currentBatchId].submissionCount

\* C22: accumulation of submissions into the current batch.
C22_Accumulation == [](C22_Accumulated) /\ [][C22_Step]_vars

\* Two providers have submitted different scores to the active batch.
C22_Witness ==
  /\ batches[currentBatchId].active
  /\ batches[currentBatchId].submissionCount = 2
  /\ HasSubmitted("o") /\ HasSubmitted("a")
  /\ Dec(batches[currentBatchId].totalScore) = 8

\* The errors by which a cooldown check rejects a call: CooldownActive, or the
\* arithmetic panic of the checked sum lastTime + cooldownSeconds.
CooldownErrors == {"CooldownActive", "Panic"}

\* C23: requestBatchScoreDecryption called by the owner, not paused, cooldown
\* elapsed, fails with BatchNotActive when the current batch is active (also
\* with zero submissions) and with the generic error when the current batch is
\* inactive with submissionCount = 0; in both cases
\* lastDecryptionRequestTime is unchanged and no context is stored.
C23_RequestGuards ==
  [][ (/\ last'.op = "requestBatchScoreDecryption"
       /\ last'.caller = owner /\ ~paused
       /\ now >= lastDecryptionRequestTime[owner] + cooldownSeconds)
      => /\ batches[currentBatchId].active => last'.err = "BatchNotActive"
         /\ (~batches[currentBatchId].active
              /\ batches[currentBatchId].submissionCount = 0)
            => last'.err = "Revert"
         /\ last'.err \in {"BatchNotActive", "Revert"}
            => UNCHANGED <<lastDecryptionRequestTime, decryptionContexts,
                           nextRequestId, events>> ]_vars

\* The owner requests decryption right after closing a batch that holds a
\* submission: the current slot is the next, never opened one.
C23_Witness ==
  /\ last.op = "requestBatchScoreDecryption" /\ last.caller = owner
  /\ ~paused /\ now >= lastDecryptionRequestTime[owner] + cooldownSeconds
  /\ last.err = "Revert"
  /\ currentBatchId > 1
  /\ batches[currentBatchId - 1].submissionCount > 0

\* C24: the two cooldown trackers are independent and per caller: an accepted
\* submission changes lastSubmissionTime[caller] only, an accepted decryption
\* request changes lastDecryptionRequestTime[caller] only, the submission
\* guard reads the caller's submission tracker only and the decryption guard
\* the caller's decryption tracker only.
C24_IndependentTrackers ==
  [][ /\ (last'.op = "submitFoldingData" /\ last'.err = "ok")
         => /\ \A x \in Addr \ {last'.caller} :
                  lastSubmissionTime'[x] = lastSubmissionTime[x]
            /\ UNCHANGED lastDecryptionRequestTime
      /\ (last'.op = "requestBatchScoreDecryption" /\ last'.err = "ok")
         => /\ \A x \in Addr \ {last'.caller} :
                  lastDecryptionRequestTime'[x] = lastDecryptionRequestTime[x]
            /\ UNCHANGED lastSubmissionTime
      /\ (last'.op = "submitFoldingData" /\ isProvider[last'.caller] /\ ~paused)
         => (last'.err \in CooldownErrors
             <=> now < lastSubmissionTime[last'.caller] + cooldownSeconds)
      /\ (last'.op = "requestBatchScoreDecryption"
          /\ last'.caller = owner /\ ~paused)
         => (last'.err \in CooldownErrors
             <=> now < lastDecryptionRequestTime[last'.caller] + cooldownSeconds)
    ]_vars

\* The owner, inside the submission cooldown started by its own accepted
\* submission, passes the decryption guard.
C24_Witness ==
  /\ last.op = "requestBatchScoreDecryption" /\ last.caller = owner
  /\ last.err = "BatchNotActive"
  /\ HasSubmitted(owner) /\ lastSubmissionTime[owner] > 0
  /\ now < lastSubmissionTime[owner] + cooldownSeconds

GovernanceOps == {"transferOwnership", "addProvider", "removeProvider",
                  "setPaused", "setCooldownSeconds"}

\* C25: transferOwnership, addProvider, removeProvider, setPaused and
\* setCooldownSeconds called by the current owner succeed in every state,
\* paused or not and whatever the owner's cooldowns are, and leave the
\* last-action timestamps and the batch slots untouched.
C25_GovernanceBypass ==
  [][ (last'.op \in GovernanceOps /\ last'.caller = owner)
      => /\ last'.err = "ok"
         /\ UNCHANGED <<lastSubmissionTime, lastDecryptionRequestTime,
                        batches, currentBatchId, events>> ]_vars

\* The owner hands over ownership while the contract is paused and the owner
\* is inside the cooldown started by its own accepted submission.
C25_Witness ==
  /\ last.op = "transferOwnership" /\ last.err = "ok" /\ paused
  /\ HasSubmitted(last.caller)
  /\ now < lastSubmissionTime[last.caller] + cooldownSeconds

\* C26: setCooldownSeconds(v) by the owner stores v as the one cooldown read
\* by both guards and changes no timestamp; a submission or decryption
\* request at time t passes its guard exactly when
\* t >= lastActionTime[caller] + cooldownSeconds for the value stored at that
\* moment, whatever the cooldown was when the timestamp was recorded.
C26_CooldownReplaced ==
  [][ /\ (last'.op = "setCooldownSeconds" /\ last'.caller = owner)
         => /\ cooldownSeconds' = last'.num
            /\ UNCHANGED <<lastSubmissionTime, lastDecryptionRequestTime>>
      /\ (last'.op = "submitFoldingData" /\ isProvider[last'.caller] /\ ~paused)
         => (last'.err \notin CooldownErrors
             <=> now >= lastSubmissionTime[last'.caller] + cooldownSeconds)
      /\ (last'.op = "requestBatchScoreDecryption"
          /\ last'.caller = owner /\ ~paused)
         => (last'.err \notin CooldownErrors
             <=> now >= lastDecryptionRequestTime[last'.caller] + cooldownSeconds)
    ]_vars

\* The submissions accepted from caller c, as positions in the event log.
SubmissionsBy(c) ==
  {k \in 1..Len(events) :
     events[k].kind = "FoldingDataSubmitted" /\ events[k].who = c}

\* After the cooldown was lowered, a provider's second submission is accepted
\* at a time the constructor's cooldown would still have blocked.
C26_Witness ==
  /\ last.op = "submitFoldingData" /\ last.err = "ok"
  /\ Cardinality(SubmissionsBy(last.caller)) = 2
  /\ cooldownSeconds < DefaultCooldown
  /\ now < DefaultCooldown

\* C27 (step part): transferOwnership(n) by the owner changes owner only, so
\* the provider set is as before; whoever is not the owner is rejected with
\* NotOwner on every owner-only operation; an owner outside the provider set
\* is rejected with NotProvider on submitFoldingData and is not rejected for
\* who it is on any owner-only operation.
C27_Step ==
  /\ (last'.op = "transferOwnership" /\ last'.caller = owner)
     => /\ owner' = last'.who
        /\ UNCHANGED <<isProvider, paused, cooldownSeconds, lastSubmissionTime,
                       lastDecryptionRequestTime, currentBatchId, batches,
                       decryptionContexts, nextRequestId, events>>
  /\ (last'.op \in OwnerOnlyOps /\ last'.caller # owner)
     => last'.err = "NotOwner"
  /\ (last'.caller = owner /\ ~isProvider[owner])
     => /\ last'.op = "submitFoldingData" => last'.err = "NotProvider"
        /\ last'.op \in OwnerOnlyOps => last'.err \notin AuthorizationErrors
        /\ last'.op \in GovernanceOps => last'.err = "ok"

\* C27: the owner is a provider at initialization, and the owner and provider
\* roles are separate afterwards.
C27_RolesSeparate == isProvider[owner] /\ [][C27_Step]_vars

\* Ownership went to an address outside the provider set: the new owner is
\* refused as a submitter, the previous owner is still a provider.
C27_Witness ==
  /\ owner # Deployer /\ ~isProvider[owner] /\ isProvider[Deployer]
  /\ last.op = "submitFoldingData" /\ last.caller = owner
  /\ last.err = "NotProvider"

\* The event kind of each batch / decryption operation.
OwnEvent ==
  [openBatch |-> "BatchOpened", closeBatch |-> "BatchClosed",
   submitFoldingData |-> "FoldingDataSubmitted",
   requestBatchScoreDecryption |-> "DecryptionRequested",
   myCallback |-> "DecryptionCompleted"]

\* C28 (step part): an accepted openBatch, closeBatch, submitFoldingData,
\* requestBatchScoreDecryption or callback appends exactly one event, of its
\* own kind and carrying the batch id it acted on, to the log; a rejected
\* operation emits nothing; no other step touches the log.
C28_Step ==
  IF last'.op \in NonGovernanceOps /\ last'.err = "ok"
  THEN /\ Len(last'.emitted) = 1
       /\ events' = events \o last'.emitted
       /\ last'.emitted[1].kind = OwnEvent[last'.op]
       /\ last'.emitted[1].id =
            CASE last'.op = "closeBatch" -> last'.num
              [] last'.op \in {"openBatch", "submitFoldingData"} -> currentBatchId
              [] last'.op = "requestBatchScoreDecryption"
                   -> decryptionContexts'[last'.num].batchId
              [] last'.op = "myCallback" -> decryptionContexts[last'.num].batchId
  ELSE /\ events' = events
       /\ last'.err # "ok" => last'.emitted = <<>>

\* C28: audit trail; the log starts empty and grows by one event of the
\* operation's kind per accepted operation, so the number of events of each
\* kind is the number of accepted operations of that kind.
C28_AuditTrail == (events = <<>>) /\ [][C28_Step]_vars

\* A batch was opened, received a submission and was closed: one event each,
\* with the batch id, and then a rejected call left the log as it was.
C28_Witness ==
  /\ Len(events) = 3
  /\ events[1].kind = "BatchOpened" /\ events[2].kind = "FoldingDataSubmitted"
  /\ events[3].kind = "BatchClosed"
  /\ \A k \in 1..3 : events[k].id = 1
  /\ last.op \in NonGovernanceOps /\ last.err # "ok"

\* C30: in every reachable state the slot at currentBatchId is either active
\* or never opened (inactive, submissionCount 0, totalScore 0); the current
\* batch is never inactive with submissionCount > 0.
C30_CurrentSlot ==
  \/ batches[currentBatchId].active
  \/ /\ ~batches[currentBatchId].active
     /\ batches[currentBatchId].submissionCount = 0
     /\ batches[currentBatchId].totalScore = 0

\* A batch holding a submission has been closed: it is inactive with
\* submissionCount > 0, and the current slot is the never-opened next one.
C30_Witness ==
  /\ currentBatchId > 1
  /\ ~batches[currentBatchId - 1].active
  /\ batches[currentBatchId - 1].submissionCount > 0
  /\ ~batches[currentBatchId].active

\* The batch-opened and batch-closed entries of the event log, in order.
IsOpenOrClose(e) == e.kind \in {"BatchOpened", "BatchClosed"}
OpenCloseLog == SelectSeq(events, IsOpenOrClose)

\* C31: in the event log every DecryptionCompleted(requestId, batchId) is
\* preceded by a DecryptionRequested for the same request identifier and
\* batch, every DecryptionRequested(batchId) by BatchClosed(batchId) and,
\* before that, by a FoldingDataSubmitted for batchId, and every
\* BatchClosed(batchId) by BatchOpened(batchId); BatchOpened and BatchClosed
\* alternate, starting with BatchOpened, each BatchClosed closing the batch
\* just opened, and their batch ids are strictly increasing.
C31_EventOrdering ==
  /\ \A k \in 1..Len(events) :
       events[k].kind = "DecryptionCompleted"
       => \E j \in 1..(k - 1) :
            /\ events[j].kind = "DecryptionRequested"
            /\ events[j].val = events[k].val
            /\ events[j].id = events[k].id
  /\ \A k \in 1..Len(events) :
       events[k].kind = "DecryptionRequested"
       => \E j \in 1..(k - 1) :
            /\ events[j].kind = "BatchClosed" /\ events[j].id = events[k].id
            /\ \E i \in 1..(j - 1) :
                 /\ events[i].kind = "FoldingDataSubmitted"
                 /\ events[i].id = events[k].id
  /\ \A k \in 1..Len(events) :
       events[k].kind = "BatchClosed"
       => \E j \in 1..(k - 1) :
            events[j].kind = "BatchOpened" /\ events[j].id = events[k].id
  /\ \A n \in 1..Len(OpenCloseLog) :
       /\ n % 2 = 1 => OpenCloseLog[n].kind = "BatchOpened"
       /\ n % 2 = 0 => /\ OpenCloseLog[n].kind = "BatchClosed"
                       /\ OpenCloseLog[n].id = OpenCloseLog[n - 1].id
       /\ n >= 3 => OpenCloseLog[n].id > OpenCloseLog[n - 2].id

\* Batch 1 was opened, received a submission and was closed, and the next
\* batch was opened under a larger id.
C31_Witness ==
  /\ Len(OpenCloseLog) = 3
  /\ OpenCloseLog[3].kind = "BatchOpened"
  /\ OpenCloseLog[3].id > OpenCloseLog[1].id
  /\ SubmissionsTo(OpenCloseLog[2].id) # {}

\* No decryption request was ever accepted.
NoRequestYet ==
  \A k \in 1..Len(events) : events[k].kind # "DecryptionRequested"

\* C32 (state part): a caller with no accepted action has last-action time 0.
C32_NeverActed ==
  /\ \A c \in Addr : ~HasSubmitted(c) => lastSubmissionTime[c] = 0
  /\ NoRequestYet => \A c \in Addr : lastDecryptionRequestTime[c] = 0

\* C32 (step part): the first submitFoldingData of a provider, and the first
\* requestBatchScoreDecryption of the owner, at time t is rejected with
\* CooldownActive when t < cooldownSeconds and passes the cooldown guard when
\* t >= cooldownSeconds.
C32_Step ==
  /\ ( /\ last'.op = "submitFoldingData"
       /\ isProvider[last'.caller] /\ ~paused
       /\ ~HasSubmitted(last'.caller) )
     => /\ now < cooldownSeconds => last'.err = "CooldownActive"
        /\ now >= cooldownSeconds => last'.err \notin CooldownErrors
  /\ ( /\ last'.op = "requestBatchScoreDecryption"
       /\ last'.caller = owner /\ ~paused
       /\ NoRequestYet )
     => /\ now < cooldownSeconds => last'.err = "CooldownActive"
        /\ now >= cooldownSeconds => last'.err \notin CooldownErrors

\* C32: first-use cooldown.
C32_FirstUseCooldown == [](C32_NeverActed) /\ [][C32_Step]_vars

\* A provider that never submitted is turned away by the cooldown at a time
\* later than deployment.
C32_Witness ==
  /\ last.op = "submitFoldingData" /\ last.err = "CooldownActive"
  /\ isProvider[last.caller] /\ ~paused
  /\ ~HasSubmitted(last.caller)
  /\ now > 0 /\ now < cooldownSeconds

\* The cooldown guard a call has to pass: the caller's last-action time.
GuardedLastTime ==
  [submitFoldingData |-> lastSubmissionTime,
   requestBatchScoreDecryption |-> lastDecryptionRequestTime]

\* The call reaches its cooldown guard: it passed the role and pause checks.
ReachesGuard(op, c) ==
  /\ op \in DOMAIN GuardedLastTime
  /\ ~paused
  /\ IF op = "submitFoldingData" THEN isProvider[c] ELSE c = owner

\* C33 (as stated): whenever now < lastActionTime[caller] + cooldownSeconds
\* as a mathematical sum, also when the sum exceeds the unsigned range, the
\* guard rejects with CooldownActive.
C33_Original ==
  [][ ReachesGuard(last'.op, last'.caller)
      => (now < GuardedLastTime[last'.op][last'.caller] + cooldownSeconds
          => last'.err = "CooldownActive") ]_vars

\* C33 (amended): the guard rejects whenever now is below the mathematical
\* sum and never wraps around to admit the call; the error is CooldownActive
\* when the sum fits the unsigned range and the arithmetic overflow panic
\* when the sum exceeds it.
C33_CooldownArithmetic ==
  [][ ReachesGuard(last'.op, last'.caller)
      => LET sum == GuardedLastTime[last'.op][last'.caller] + cooldownSeconds IN
         /\ now < sum => last'.err \in CooldownErrors
         /\ last'.err = "CooldownActive" <=> (now < sum /\ sum <= UintMax)
         /\ last'.err = "Panic" <=> sum > UintMax ]_vars

\* A provider with a recorded submission calls again after the cooldown was
\* set to the largest value: the sum exceeds the unsigned range.
C33_Witness ==
  /\ last.op = "submitFoldingData" /\ last.err = "Panic"
  /\ isProvider[last.caller] /\ ~paused
  /\ lastSubmissionTime[last.caller] > 0
  /\ lastSubmissionTime[last.caller] + cooldownSeconds > UintMax

====
